---- MODULE Spec2Model ----
(***************************************************************************)
(* SigV4 request signing for S3 GET requests: src/src/client.rs and        *)
(* src/src/credentials.rs.                                                 *)
(*                                                                         *)
(* Strings are sequences of byte values (0..255), so that ordering,        *)
(* percent-encoding, lower-casing and trimming are computed byte by byte   *)
(* as the code computes them.                                              *)
(***************************************************************************)
EXTENDS Integers, Sequences, FiniteSets, TLC

VARIABLES
    pc,                 \* position of the running operation
    provider,           \* what CredentialProvider::get_credential answers
    credential,         \* the credential get obtained, None before
    bucket,             \* get(bucket, ..)
    key,                \* get(.., key, ..)
    range,              \* get(.., range): None or Some([start, end])
    request,            \* the hyper Request: method, uri, headers
    supplied_headers,   \* the (name, value) pairs the header map was built from
    url,                \* the url::Url parsed from the request's URI
    canonical_query,    \* canonicalize_query(&url)
    signed_headers,     \* canonicalize_headers(..).0
    canonical_headers,  \* canonicalize_headers(..).1
    recanonical_query,  \* canonicalize_query of a URL whose query is canonical_query
    signed_request,     \* the request as RequestSigner::sign left it
    sent,               \* the request handed to self.client.request
    result              \* what the operation returned

vars == <<pc, provider, credential, bucket, key, range, request, supplied_headers, url,
          canonical_query,
          signed_headers, canonical_headers, recanonical_query,
          signed_request, sent, result>>

None == <<>>
Some(x) == <<x>>

(***************************************************************************)
(* Bytes and strings                                                       *)
(***************************************************************************)
Bytes == 0..255

IsAlnum(b) ==
    \/ b >= 48 /\ b <= 57
    \/ b >= 65 /\ b <= 90
    \/ b >= 97 /\ b <= 122

\* faulty variant: '+' is left unescaped as well
STRICT_ENCODE_SET_PlusUnescaped ==
    {b \in Bytes : ~IsAlnum(b)} \ {43, 45, 46, 95, 126}

\* percent_encoding::NON_ALPHANUMERIC minus '-', '.', '_', '~'; bytes above
\* 0x7F are always escaped by utf8_percent_encode.
STRICT_ENCODE_SET == {b \in Bytes : ~IsAlnum(b)} \ {45, 46, 95, 126}

STRICT_PATH_ENCODE_SET == STRICT_ENCODE_SET \ {47}

HexUpper(n) == IF n < 10 THEN 48 + n ELSE 55 + n

IsHexDigit(b) ==
    \/ b >= 48 /\ b <= 57
    \/ b >= 65 /\ b <= 70
    \/ b >= 97 /\ b <= 102

HexVal(b) ==
    IF b <= 57 THEN b - 48 ELSE IF b <= 70 THEN b - 55 ELSE b - 87

utf8_percent_encode(s, set) ==
    LET enc[i \in 0..Len(s)] ==
            IF i = 0 THEN <<>>
            ELSE enc[i - 1] \o
                 (IF s[i] \in set
                  THEN <<37, HexUpper(s[i] \div 16), HexUpper(s[i] % 16)>>
                  ELSE <<s[i]>>)
    IN enc[Len(s)]

\* Ord for str: byte-wise lexicographic order
RECURSIVE StrLess(_, _)
StrLess(a, b) ==
    IF b = <<>> THEN FALSE
    ELSE IF a = <<>> THEN TRUE
    ELSE IF Head(a) # Head(b) THEN Head(a) < Head(b)
    ELSE StrLess(Tail(a), Tail(b))

StrLeq(a, b) == a = b \/ StrLess(a, b)

IndexOf(s, b) ==
    IF \E i \in 1..Len(s) : s[i] = b
    THEN CHOOSE i \in 1..Len(s) : s[i] = b /\ \A j \in 1..(i - 1) : s[j] # b
    ELSE 0

RECURSIVE Split(_, _)
Split(s, sep) ==
    LET i == IndexOf(s, sep)
    IN IF i = 0 THEN <<s>>
       ELSE <<SubSeq(s, 1, i - 1)>> \o Split(SubSeq(s, i + 1, Len(s)), sep)

RECURSIVE Join(_, _)
Join(parts, sep) ==
    IF parts = <<>> THEN <<>>
    ELSE IF Len(parts) = 1 THEN parts[1]
    ELSE parts[1] \o sep \o Join(Tail(parts), sep)

(***************************************************************************)
(* UTF-8                                                                   *)
(***************************************************************************)
IsCont(b) == b >= 128 /\ b <= 191

\* length of the UTF-8 sequence a lead byte announces, 0 for a byte that
\* cannot start one
Utf8Width(b) ==
    IF b < 128 \/ b > 255 THEN 1      \* above 255: a digit of a symbolic digest
    ELSE IF b >= 194 /\ b <= 223 THEN 2
    ELSE IF b >= 224 /\ b <= 239 THEN 3
    ELSE IF b >= 240 /\ b <= 244 THEN 4
    ELSE 0

\* number of continuation bytes that follow s[1], at most w - 1
ContRun(s, w) ==
    LET ok(n) == n + 1 <= Len(s) /\ \A j \in 2..(n + 1) : IsCont(s[j])
    IN CHOOSE n \in 0..3 :
          /\ n <= w - 1
          /\ ok(n)
          /\ \A m \in 0..3 : (m <= w - 1 /\ ok(m)) => m <= n

\* U+FFFD REPLACEMENT CHARACTER
REPLACEMENT == <<239, 191, 189>>

RECURSIVE Utf8Valid(_)
Utf8Valid(s) ==
    IF s = <<>> THEN TRUE
    ELSE LET w == Utf8Width(s[1])
         IN /\ w > 0
            /\ ContRun(s, w) = w - 1
            /\ Utf8Valid(SubSeq(s, w + 1, Len(s)))

RECURSIVE from_utf8_lossy(_)
from_utf8_lossy(s) ==
    IF s = <<>> THEN <<>>
    ELSE LET w == Utf8Width(s[1])
             n == IF w = 0 THEN 0 ELSE ContRun(s, w)
         IN IF w > 0 /\ n = w - 1
            THEN SubSeq(s, 1, w) \o from_utf8_lossy(SubSeq(s, w + 1, Len(s)))
            ELSE REPLACEMENT \o from_utf8_lossy(SubSeq(s, n + 2, Len(s)))

(***************************************************************************)
(* url::Url and form_urlencoded                                            *)
(***************************************************************************)
\* bytes url::Url percent-encodes in the query of a special-scheme URL
URL_QUERY_ENCODE_SET == (0..32) \cup {34, 35, 39, 60, 62} \cup (127..255)

\* Url::parse on the query part: a '#' starts the fragment
Url_parse_query(raw) ==
    LET h == IndexOf(raw, 35)
        q == IF h = 0 THEN raw ELSE SubSeq(raw, 1, h - 1)
    IN utf8_percent_encode(q, URL_QUERY_ENCODE_SET)

RECURSIVE percent_decode(_)
percent_decode(s) ==
    IF s = <<>> THEN <<>>
    ELSE IF s[1] = 37 /\ Len(s) >= 3 /\ IsHexDigit(s[2]) /\ IsHexDigit(s[3])
    THEN <<HexVal(s[2]) * 16 + HexVal(s[3])>> \o percent_decode(SubSeq(s, 4, Len(s)))
    ELSE <<s[1]>> \o percent_decode(Tail(s))

replace_plus(s) == [i \in 1..Len(s) |-> IF s[i] = 43 THEN 32 ELSE s[i]]

form_decode(s) == from_utf8_lossy(percent_decode(replace_plus(s)))

\* Url::query_pairs: form_urlencoded::parse of the query
query_pairs(q) ==
    LET segs == SelectSeq(Split(q, 38), LAMBDA s : s # <<>>)
        pair(seg) ==
            LET i == IndexOf(seg, 61)
            IN IF i = 0 THEN <<form_decode(seg), <<>>>>
               ELSE <<form_decode(SubSeq(seg, 1, i - 1)),
                      form_decode(SubSeq(seg, i + 1, Len(seg)))>>
    IN [i \in 1..Len(segs) |-> pair(segs[i])]

(***************************************************************************)
(* canonicalize_query                                                      *)
(***************************************************************************)
SortedByKey(ps) == \A i \in 1..(Len(ps) - 1) : StrLeq(ps[i][1], ps[i + 1][1])

Reorderings(ps) ==
    {[i \in 1..Len(ps) |-> ps[f[i]]] : f \in Permutations(1..Len(ps))}

\* faulty variant: the comparator looks at the values instead of the keys
sort_unstable_by_Value(ps) ==
    {r \in Reorderings(ps) :
        \A i \in 1..(Len(r) - 1) : StrLeq(r[i][2], r[i + 1][2])}

\* slice::sort_unstable_by comparing keys only: the result is ordered by key,
\* the order of entries with equal keys is not specified.  A slice that is
\* already ordered is returned as it is (insertion sort below 21 elements,
\* detection of an ordered run above).
sort_unstable_by(ps) ==
    IF SortedByKey(ps) THEN {ps}
    ELSE {r \in Reorderings(ps) : SortedByKey(r)}

encode_pairs(ps) ==
    Join([i \in 1..Len(ps) |->
              utf8_percent_encode(ps[i][1], STRICT_ENCODE_SET) \o <<61>> \o
              utf8_percent_encode(ps[i][2], STRICT_ENCODE_SET)],
         <<38>>)

\* the strings canonicalize_query can return for a Url
canonicalize_query(u) ==
    IF u.query = None \/ u.query[1] = <<>> THEN {<<>>}
    ELSE {encode_pairs(s) : s \in sort_unstable_by(query_pairs(u.query[1]))}

(***************************************************************************)
(* http::HeaderMap                                                         *)
(***************************************************************************)
to_lowercase(s) == [i \in 1..Len(s) |-> IF s[i] >= 65 /\ s[i] <= 90 THEN s[i] + 32 ELSE s[i]]

\* HeaderValue: visible bytes, space and tab and the bytes above 0x7F
HeaderValue_is_valid(v) == \A i \in 1..Len(v) : (v[i] >= 32 /\ v[i] # 127) \/ v[i] = 9

\* A header map is a sequence of entries [name, values] with distinct
\* lower-case names, in the order the names were first inserted.
HasHeader(map, name) == \E i \in 1..Len(map) : map[i].name = name

HeaderMap_append(map, name, value) ==
    LET n == to_lowercase(name)
    IN IF HasHeader(map, n)
       THEN [i \in 1..Len(map) |->
                IF map[i].name = n
                THEN [name |-> n, values |-> Append(map[i].values, value)]
                ELSE map[i]]
       ELSE Append(map, [name |-> n, values |-> <<value>>])

HeaderMap_insert(map, name, value) ==
    LET n == to_lowercase(name)
    IN IF HasHeader(map, n)
       THEN [i \in 1..Len(map) |->
                IF map[i].name = n THEN [name |-> n, values |-> <<value>>] ELSE map[i]]
       ELSE Append(map, [name |-> n, values |-> <<value>>])

HeaderMap_get(map, name) ==
    IF HasHeader(map, name)
    THEN (CHOOSE e \in {map[i] : i \in 1..Len(map)} : e.name = name).values
    ELSE <<>>

\* iteration over (key, value): every value of every entry
RECURSIVE HeaderMap_iter(_)
HeaderMap_iter(map) ==
    IF map = <<>> THEN <<>>
    ELSE [i \in 1..Len(Head(map).values) |-> <<Head(map).name, Head(map).values[i]>>]
         \o HeaderMap_iter(Tail(map))

RECURSIVE HeaderMap_from(_)
HeaderMap_from(pairs) ==
    IF pairs = <<>> THEN <<>>
    ELSE HeaderMap_append(HeaderMap_from(SubSeq(pairs, 1, Len(pairs) - 1)),
                          pairs[Len(pairs)][1], pairs[Len(pairs)][2])

(***************************************************************************)
(* canonicalize_headers                                                    *)
(***************************************************************************)
AUTH_HEADER == <<97, 117, 116, 104, 111, 114, 105, 122, 97, 116, 105, 111, 110>>   \* "authorization"
DATE_HEADER == <<120, 45, 97, 109, 122, 45, 100, 97, 116, 101>>   \* "x-amz-date"
HASH_HEADER == <<120, 45, 97, 109, 122, 45, 99, 111, 110, 116, 101, 110, 116, 45, 115, 104, 97, 50, 53, 54>>   \* "x-amz-content-sha256"
TOKEN_HEADER == <<120, 45, 97, 109, 122, 45, 115, 101, 99, 117, 114, 105, 116, 121, 45, 116, 111, 107, 101, 110>>   \* "x-amz-security-token"
CONTENT_LENGTH == <<99, 111, 110, 116, 101, 110, 116, 45, 108, 101, 110, 103, 116, 104>>   \* "content-length"
USER_AGENT == <<117, 115, 101, 114, 45, 97, 103, 101, 110, 116>>   \* "user-agent"

\* faulty variant: user-agent is signed
ExcludedHeaders_UserAgentSigned == {AUTH_HEADER, CONTENT_LENGTH}

\* faulty variant: authorization is signed
ExcludedHeaders_AuthorizationSigned == {CONTENT_LENGTH, USER_AGENT}

\* ["authorization", "content-length", "user-agent"].contains(&key)
ExcludedHeaders == {AUTH_HEADER, CONTENT_LENGTH, USER_AGENT}

\* str::trim; the white space of the header values here is ASCII
WhiteSpace == {9, 10, 11, 12, 13, 32}

RECURSIVE trim_start(_)
trim_start(s) ==
    IF s # <<>> /\ Head(s) \in WhiteSpace THEN trim_start(Tail(s)) ELSE s

RECURSIVE trim_end(_)
trim_end(s) ==
    IF s # <<>> /\ s[Len(s)] \in WhiteSpace THEN trim_end(SubSeq(s, 1, Len(s) - 1)) ELSE s

\* faulty variant: values are not trimmed
trim_Not(s) == s

trim(s) == trim_end(trim_start(s))

\* the keys of a BTreeMap<&str, _> in iteration order: ascending
RECURSIVE BTreeKeys(_)
BTreeKeys(names) ==
    IF names = {} THEN <<>>
    ELSE LET least == CHOOSE n \in names : \A m \in names : StrLeq(n, m)
         IN <<least>> \o BTreeKeys(names \ {least})

\* None when std::str::from_utf8(value.as_bytes()).unwrap() panics, otherwise
\* Some(<<signed_headers, canonical_headers>>)
canonicalize_headers(header_map) ==
    LET all == HeaderMap_iter(header_map)
        kept == SelectSeq(all, LAMBDA kv : kv[1] \notin ExcludedHeaders)
        names == BTreeKeys({kept[i][1] : i \in 1..Len(kept)})
        values(n) == LET mine == SelectSeq(kept, LAMBDA kv : kv[1] = n)
                     IN [i \in 1..Len(mine) |-> trim(mine[i][2])]
        line(n) == n \o <<58>> \o Join(values(n), <<44>>) \o <<10>>
    IN IF \E i \in 1..Len(kept) : ~Utf8Valid(kept[i][2])
       THEN None
       ELSE Some(<<Join(names, <<59>>),
                   Join([i \in 1..Len(names) |-> line(names[i])], <<>>)>>)


(***************************************************************************)
(* Inputs common to the specifications                                     *)
(***************************************************************************)
MaxPairs == 3

\* segments of a raw query string, joined by '&'
Segments ==
    { <<97, 45, 61, 50>>,                  \* a-=2
      <<97, 47, 61, 49>>,                  \* a/=1
      <<97, 37, 50, 70, 61, 50>>,          \* a%2F=2
      <<97, 61, 49>>,                      \* a=1
      <<97, 61, 50>>,                      \* a=2
      <<97, 43, 98, 61, 37, 70, 70>>,      \* a+b=%FF
      <<97, 32, 98>>,                      \* "a b", no '='
      <<>>,                                \* empty segment
      <<37, 61>>,                          \* %=
      <<98, 61, 37, 50, 66>> }             \* b=%2B

RawQueries ==
    {Join(segs, <<38>>) :
        segs \in UNION {[1..n -> Segments] : n \in 0..MaxPairs}}

NoRequest == [method |-> <<>>, uri |-> [path |-> <<>>, query |-> None], headers |-> <<>>]
NoUrl == [query |-> None]
NoCredential == [key_id |-> <<>>, secret_key |-> <<>>, token |-> None]
NoProvider == [ok |-> FALSE, credential |-> NoCredential]

(***************************************************************************)
(* SHA-256 and HMAC-SHA256, symbolically: a digest is its input between    *)
(* marks that are not bytes, so that two digests are equal exactly when    *)
(* their inputs are (no collisions).                                       *)
(***************************************************************************)
hex_digest(bytes) == <<256>> \o bytes \o <<257>>

hmac_sha256(secret, bytes) == <<258>> \o secret \o <<259>> \o bytes \o <<260>>

hex_encode(tag) == <<261>> \o tag \o <<262>>

\* "e3b0c44298fc1c149afbf4c8996fb92427ae41e4649b934ca495991b7852b855"
EMPTY_SHA256_HASH ==
    <<101, 51, 98, 48, 99, 52, 52, 50, 57, 56, 102, 99, 49, 99, 49, 52, 57, 97, 102, 98, 102, 52, 99, 56, 57, 57, 54, 102, 98, 57, 50, 52, 50, 55, 97, 101, 52, 49, 101, 52, 54, 52, 57, 98, 57, 51, 52, 99, 97, 52, 57, 53, 57, 57, 49, 98, 55, 56, 53, 50, 98, 56, 53, 53>>

(***************************************************************************)
(* RequestSigner                                                           *)
(***************************************************************************)
\* DateTime<Utc> as its two formatted parts
\* 2015-08-30 12:36:00 UTC
SignerDate == [ymd |-> <<50, 48, 49, 53, 48, 56, 51, 48>>, hms |-> <<49, 50, 51, 54, 48, 48>>]

\* date.format("%Y%m%dT%H%M%SZ")
format_datetime(d) == d.ymd \o <<84>> \o d.hms \o <<90>>

\* date.format("%Y%m%d")
format_date(d) == d.ymd

\* "us-east-1"
REGION == <<117, 115, 45, 101, 97, 115, 116, 45, 49>>
\* "s3"
SERVICE == <<115, 51>>
\* "AWS4"
AWS4 == <<65, 87, 83, 52>>
\* "aws4_request"
AWS4_REQUEST == <<97, 119, 115, 52, 95, 114, 101, 113, 117, 101, 115, 116>>
\* "AWS4-HMAC-SHA256"
ALGORITHM == <<65, 87, 83, 52, 45, 72, 77, 65, 67, 45, 83, 72, 65, 50, 53, 54>>
\* "GET"
GET == <<71, 69, 84>>

AwsCredential_sign(cred, to_sign, date, region, service) ==
    LET date_hmac == hmac_sha256(AWS4 \o cred.secret_key, format_date(date))
        region_hmac == hmac_sha256(date_hmac, region)
        service_hmac == hmac_sha256(region_hmac, service)
        signing_hmac == hmac_sha256(service_hmac, AWS4_REQUEST)
    IN hex_encode(hmac_sha256(signing_hmac, to_sign))

\* Url::parse(request.uri().to_string()): the query of the URI, as Url keeps
\* it; scheme, endpoint and path of the URL are not read by sign
Url_parse(uri) ==
    [query |-> IF uri.query = None THEN None ELSE Some(Url_parse_query(uri.query[1]))]

scope_of(date, region, service) ==
    format_date(date) \o <<47>> \o region \o <<47>> \o service \o <<47>> \o AWS4_REQUEST

\* the authorization value sign computes from the request with the token,
\* date and hash headers set, for one outcome cq of canonicalize_query
authorisation(req, cred, ch, cq) ==
    LET canonical_request ==
            req.method \o <<10>> \o req.uri.path \o <<10>> \o cq \o <<10>> \o
            ch[2] \o <<10>> \o ch[1] \o <<10>> \o EMPTY_SHA256_HASH
        hashed_canonical_request == hex_digest(canonical_request)
        scope == scope_of(SignerDate, REGION, SERVICE)
        string_to_sign ==
            ALGORITHM \o <<10>> \o format_datetime(SignerDate) \o <<10>> \o
            scope \o <<10>> \o hashed_canonical_request
        signature == AwsCredential_sign(cred, string_to_sign, SignerDate, REGION, SERVICE)
    IN \* "AWS4-HMAC-SHA256 Credential={}/{}, SignedHeaders={}, Signature={}"
       ALGORITHM \o <<32, 67, 114, 101, 100, 101, 110, 116, 105, 97, 108, 61>> \o cred.key_id \o <<47>> \o scope \o
       <<44, 32, 83, 105, 103, 110, 101, 100, 72, 101, 97, 100, 101, 114, 115, 61>> \o ch[1] \o <<44, 32, 83, 105, 103, 110, 97, 116, 117, 114, 101, 61>> \o signature

SignUnchanged ==
    UNCHANGED <<provider, credential, bucket, key, range, supplied_headers,
                recanonical_query, sent, result>>

\* sign, lines 56-61: parse the URL, write x-amz-security-token
SignToken ==
    /\ pc = "sign"
    /\ url' = Url_parse(request.uri)
    /\ LET token == credential[1].token
       IN IF token = None
          THEN pc' = "sign_date" /\ UNCHANGED request
          ELSE IF ~HeaderValue_is_valid(token[1])
          THEN pc' = "panicked" /\ UNCHANGED request
          ELSE /\ pc' = "sign_date"
               /\ request' = [request EXCEPT
                      !.headers = HeaderMap_insert(@, TOKEN_HEADER, token[1])]
    /\ UNCHANGED <<canonical_query, signed_headers, canonical_headers, signed_request>>
    /\ SignUnchanged

\* sign, lines 63-65: write x-amz-date
SignDate ==
    /\ pc = "sign_date"
    /\ request' = [request EXCEPT
           !.headers = HeaderMap_insert(@, DATE_HEADER, format_datetime(SignerDate))]
    /\ pc' = "sign_hash"
    /\ UNCHANGED <<url, canonical_query, signed_headers, canonical_headers, signed_request>>
    /\ SignUnchanged

\* sign, lines 73-76: write x-amz-content-sha256
SignHash ==
    /\ pc = "sign_hash"
    /\ request' = [request EXCEPT
           !.headers = HeaderMap_insert(@, HASH_HEADER, EMPTY_SHA256_HASH)]
    /\ pc' = "sign_canonical"
    /\ UNCHANGED <<url, canonical_query, signed_headers, canonical_headers, signed_request>>
    /\ SignUnchanged

\* sign, lines 78-119: canonicalise, sign, write authorization
SignAuthorize ==
    /\ pc = "sign_canonical"
    /\ LET ch == canonicalize_headers(request.headers)
       IN IF ch = None
          THEN /\ pc' = "panicked"
               /\ UNCHANGED <<request, canonical_query, signed_headers,
                              canonical_headers, signed_request>>
          ELSE \E cq \in canonicalize_query(url) :
                 /\ signed_headers' = ch[1][1]
                 /\ canonical_headers' = ch[1][2]
                 /\ canonical_query' = cq
                 /\ request' = [request EXCEPT
                        !.headers = HeaderMap_insert(@, AUTH_HEADER,
                                        authorisation(request, credential[1], ch[1], cq))]
                 /\ signed_request' = Some(request')
                 /\ pc' = "signed"
    /\ UNCHANGED url
    /\ SignUnchanged

(***************************************************************************)
(* canonicalize_query applied to a Url, and again to its own output        *)
(***************************************************************************)
InitQuery ==
    /\ pc = "query"
    /\ url \in {NoUrl} \cup {[query |-> Some(Url_parse_query(q))] : q \in RawQueries}
    /\ provider = NoProvider
    /\ credential = None
    /\ bucket = <<>>
    /\ key = <<>>
    /\ range = None
    /\ request = NoRequest
    /\ supplied_headers = <<>>
    /\ canonical_query = <<>>
    /\ signed_headers = <<>>
    /\ canonical_headers = <<>>
    /\ recanonical_query = <<>>
    /\ signed_request = None
    /\ sent = None
    /\ result = None

CanonicalizeQuery ==
    /\ pc = "query"
    /\ \E c \in canonicalize_query(url) : canonical_query' = c
    /\ pc' = "canonicalized"
    /\ UNCHANGED <<provider, credential, bucket, key, range, request, supplied_headers, url, signed_headers,
                   canonical_headers, recanonical_query, signed_request, sent, result>>

RecanonicalizeQuery ==
    /\ pc = "canonicalized"
    /\ \E c \in canonicalize_query([query |-> Some(Url_parse_query(canonical_query))]) :
          recanonical_query' = c
    /\ pc' = "recanonicalized"
    /\ UNCHANGED <<provider, credential, bucket, key, range, request, supplied_headers, url, canonical_query,
                   signed_headers, canonical_headers, signed_request, sent, result>>

NextQuery == CanonicalizeQuery \/ RecanonicalizeQuery

SpecQuery == InitQuery /\ [][NextQuery]_vars

\* the (key, value) pairs of the Url handed to canonicalize_query
InputPairs == IF url.query = None THEN <<>> ELSE query_pairs(url.query[1])

\* the entries "key=value" of the canonical query string
CanonicalEntries ==
    IF canonical_query = <<>> THEN <<>> ELSE Split(canonical_query, 38)

EntryKey(e) == SubSeq(e, 1, IndexOf(e, 61) - 1)
EntryValue(e) == SubSeq(e, IndexOf(e, 61) + 1, Len(e))

Unreserved == {b \in Bytes : IsAlnum(b)} \cup {45, 46, 95, 126}

\* every byte is unreserved or part of a %XY escape of a byte that is not
RECURSIVE StrictlyEncoded(_)
StrictlyEncoded(s) ==
    IF s = <<>> THEN TRUE
    ELSE IF s[1] \in Unreserved THEN StrictlyEncoded(Tail(s))
    ELSE /\ s[1] = 37
         /\ Len(s) >= 3
         /\ s[2] \in (48..57) \cup (65..70)
         /\ s[3] \in (48..57) \cup (65..70)
         /\ HexVal(s[2]) * 16 + HexVal(s[3]) \notin Unreserved
         /\ StrictlyEncoded(SubSeq(s, 4, Len(s)))

\* C5: the entries of the canonical query string are in byte-wise order of
\* their percent-encoded keys, keys and values are strictly encoded.
C5_EncodedKeyOrder ==
    pc = "canonicalized" =>
        /\ \A i \in 1..Len(CanonicalEntries) :
              /\ IndexOf(CanonicalEntries[i], 61) > 0
              /\ StrictlyEncoded(EntryKey(CanonicalEntries[i]))
              /\ StrictlyEncoded(EntryValue(CanonicalEntries[i]))
        /\ \A i \in 1..(Len(CanonicalEntries) - 1) :
              StrLeq(EntryKey(CanonicalEntries[i]), EntryKey(CanonicalEntries[i + 1]))

\* C7: canonicalising the canonical query string again gives the same string.
C7_Idempotent ==
    pc = "recanonicalized" => recanonical_query = canonical_query

C7_Witness ==
    /\ pc = "recanonicalized"
    /\ url.query # None
    /\ url.query[1] # canonical_query
    /\ 37 \in {canonical_query[i] : i \in 1..Len(canonical_query)}
    /\ \E i, j \in 1..Len(CanonicalEntries) :
          i # j /\ EntryKey(CanonicalEntries[i]) = EntryKey(CanonicalEntries[j])

\* insertion of p behind every entry whose key is not greater: a stable sort
RECURSIVE StableInsert(_, _)
StableInsert(sorted, p) ==
    IF sorted = <<>> THEN <<p>>
    ELSE IF StrLess(p[1], Head(sorted)[1]) THEN <<p>> \o sorted
    ELSE <<Head(sorted)>> \o StableInsert(Tail(sorted), p)

RECURSIVE StableSortByKey(_)
StableSortByKey(ps) ==
    IF ps = <<>> THEN <<>>
    ELSE StableInsert(StableSortByKey(SubSeq(ps, 1, Len(ps) - 1)), ps[Len(ps)])

Count(seq, x) == Cardinality({i \in 1..Len(seq) : seq[i] = x})

MaxHeaders == 3

\* header names as a caller writes them
SuppliedNames ==
    { <<67, 111, 110, 116, 101, 110, 116, 45, 76, 101, 110, 103, 116, 104>>,   \* "Content-Length"
      <<65, 85, 84, 72, 79, 82, 73, 90, 65, 84, 73, 79, 78>>,   \* "AUTHORIZATION"
      <<85, 115, 101, 114, 45, 65, 103, 101, 110, 116>>,   \* "User-Agent"
      <<67, 111, 110, 116, 101, 110, 116, 45, 84, 121, 112, 101>>,   \* "Content-Type"
      <<120, 45, 97>>,   \* "x-a"
      <<88, 45, 65>>   \* "X-A"
    }

SuppliedValues ==
    { <<32, 118, 9>>,     \* " v\t"
      <<119>>,            \* "w"
      <<255>> }           \* an opaque byte, not UTF-8

SuppliedHeaders ==
    UNION {[1..n -> SuppliedNames \X SuppliedValues] : n \in 0..MaxHeaders}

InitHeaders ==
    /\ pc = "headers"
    /\ supplied_headers \in SuppliedHeaders
    /\ request = [NoRequest EXCEPT !.headers = HeaderMap_from(supplied_headers)]
    /\ url = NoUrl
    /\ provider = NoProvider
    /\ credential = None
    /\ bucket = <<>>
    /\ key = <<>>
    /\ range = None
    /\ canonical_query = <<>>
    /\ signed_headers = <<>>
    /\ canonical_headers = <<>>
    /\ recanonical_query = <<>>
    /\ signed_request = None
    /\ sent = None
    /\ result = None

CanonicalizeHeaders ==
    /\ pc = "headers"
    /\ LET r == canonicalize_headers(request.headers)
       IN IF r = None
          THEN /\ pc' = "panicked"
               /\ UNCHANGED <<signed_headers, canonical_headers>>
          ELSE /\ pc' = "headers_done"
               /\ signed_headers' = r[1][1]
               /\ canonical_headers' = r[1][2]
    /\ UNCHANGED <<provider, credential, bucket, key, range, request, supplied_headers, url,
                   canonical_query, recanonical_query, signed_request, sent, result>>

NextHeaders == CanonicalizeHeaders

SpecHeaders == InitHeaders /\ [][NextHeaders]_vars

\* the names of the signed-header list
SignedNames == IF signed_headers = <<>> THEN <<>> ELSE Split(signed_headers, 59)

\* the lines of the canonical header block, each ended by a line feed
BlockLines ==
    IF canonical_headers = <<>> THEN <<>>
    ELSE LET parts == Split(canonical_headers, 10)
         IN SubSeq(parts, 1, Len(parts) - 1)

LineName(l) == SubSeq(l, 1, IndexOf(l, 58) - 1)

IsLowerCase(s) == \A i \in 1..Len(s) : ~(s[i] >= 65 /\ s[i] <= 90)

ReservedNames ==
    { <<97, 117, 116, 104, 111, 114, 105, 122, 97, 116, 105, 111, 110>>,   \* "authorization"
      <<99, 111, 110, 116, 101, 110, 116, 45, 108, 101, 110, 103, 116, 104>>,   \* "content-length"
      <<117, 115, 101, 114, 45, 97, 103, 101, 110, 116>>   \* "user-agent"
    }

\* C6: the signed-header list and the canonical header block returned by
\* canonicalize_headers name, in lower case and in strictly ascending order,
\* every supplied header except authorization, content-length and user-agent
\* (in whatever case they were supplied), and no other header is dropped.
C6_SortedExcludingReserved ==
    pc = "headers_done" =>
        /\ \A i \in 1..Len(SignedNames) : IsLowerCase(SignedNames[i])
        /\ \A i \in 1..(Len(SignedNames) - 1) : StrLess(SignedNames[i], SignedNames[i + 1])
        /\ canonical_headers = <<>> \/ canonical_headers[Len(canonical_headers)] = 10
        /\ Len(BlockLines) = Len(SignedNames)
        /\ \A i \in 1..Len(BlockLines) : LineName(BlockLines[i]) = SignedNames[i]
        /\ {SignedNames[i] : i \in 1..Len(SignedNames)} =
               {to_lowercase(supplied_headers[i][1]) : i \in 1..Len(supplied_headers)}
                   \ ReservedNames

C6_Witness ==
    /\ pc = "headers_done"
    /\ Len(SignedNames) >= 2
    /\ \E i, j \in 1..Len(supplied_headers) :
          /\ to_lowercase(supplied_headers[i][1]) \in ReservedNames
          /\ supplied_headers[i][1] # to_lowercase(supplied_headers[i][1])
          /\ to_lowercase(supplied_headers[j][1]) \notin ReservedNames
          /\ supplied_headers[j][1] # to_lowercase(supplied_headers[j][1])

(***************************************************************************)
(* S3Client::get                                                           *)
(***************************************************************************)
MaxOffset == 2

RangeOffsets == (0..MaxOffset) \cup {100, 200}

\* Option<Range<usize>>: a Range is <<start, end>>, any two offsets
Ranges == {None} \cup {Some(<<a, b>>) : a, b \in RangeOffsets}

Tokens ==
    { None,
      Some(<<116, 111, 107>>),              \* "tok"
      Some(<<32, 116>>),                  \* " t"
      Some(<<116, 10, 107>>) }            \* "t\nk": a control character

Providers ==
    {NoProvider} \cup
    {[ok |-> TRUE,
      credential |-> [key_id |-> <<65, 75, 73, 68>>, secret_key |-> <<115, 101, 99, 114, 101, 116>>, token |-> t]] :
        t \in Tokens}

Buckets ==
    { <<98>>,                             \* "b"
      <<98, 32, 99>>,                     \* "b c"
      <<98, 63, 107, 61, 118>> }          \* "b?k=v"

Keys ==
    { <<107>>,                            \* "k"
      <<97, 32, 98, 47, 195, 169>> }      \* "a b/é"

RANGE == <<114, 97, 110, 103, 101>>   \* "range"

encode_path(k) == utf8_percent_encode(k, STRICT_PATH_ENCODE_SET)

\* the bytes http::uri::PathAndQuery accepts in a path and in a query
URI_PATH_BYTES ==
    {33} \cup (36..59) \cup {61} \cup (64..95) \cup (97..122) \cup {124, 126}
         \cup {34, 123, 125}
URI_QUERY_BYTES == {33} \cup (36..59) \cup {61} \cup (63..126)

\* Uri::builder().path_and_query(src).build(): None for an invalid URI
\* character, otherwise Some of the path and the optional query
PathAndQuery_parse(src) ==
    LET h == IndexOf(src, 35)
        body == IF h = 0 THEN src ELSE SubSeq(src, 1, h - 1)
        q == IndexOf(body, 63)
        path == IF q = 0 THEN body ELSE SubSeq(body, 1, q - 1)
        query == IF q = 0 THEN <<>> ELSE SubSeq(body, q + 1, Len(body))
    IN IF \/ \E i \in 1..Len(path) : path[i] \notin URI_PATH_BYTES
          \/ \E i \in 1..Len(query) : query[i] \notin URI_QUERY_BYTES
       THEN None
       ELSE Some([path |-> IF path = <<>> THEN <<47>> ELSE path,
                  query |-> IF q = 0 THEN None ELSE Some(query)])

RECURSIVE Dec(_)
Dec(n) == IF n < 10 THEN <<48 + n>> ELSE Dec(n \div 10) \o <<48 + (n % 10)>>

saturating_sub(a, b) == IF a < b THEN 0 ELSE a - b

\* faulty variant: the exclusive end is written as it is
format_http_range_ExclusiveEnd(r) ==
    <<98, 121, 116, 101, 115, 61>> \o Dec(r[1]) \o <<45>> \o Dec(r[2])

format_http_range(r) ==
    \* "bytes={}-{}"
    <<98, 121, 116, 101, 115, 61>> \o Dec(r[1]) \o <<45>> \o Dec(saturating_sub(r[2], 1))

InitGet ==
    /\ pc = "get"
    /\ provider \in Providers
    /\ bucket \in Buckets
    /\ key \in Keys
    /\ range \in Ranges
    /\ credential = None
    /\ request = NoRequest
    /\ supplied_headers = <<>>
    /\ url = NoUrl
    /\ canonical_query = <<>>
    /\ signed_headers = <<>>
    /\ canonical_headers = <<>>
    /\ recanonical_query = <<>>
    /\ signed_request = None
    /\ sent = None
    /\ result = None

GetUnchanged ==
    UNCHANGED <<provider, bucket, key, range, supplied_headers, url, canonical_query,
                signed_headers, canonical_headers, recanonical_query, signed_request>>

\* faulty variant: a failure of the provider is not propagated
GetCredential_ErrorIgnored ==
    /\ pc = "get"
    /\ credential' = Some(provider.credential)
    /\ pc' = "build"
    /\ UNCHANGED <<request, sent, result>>
    /\ GetUnchanged

\* line 75: self.config.credentials.get_credential().await?
GetCredential ==
    /\ pc = "get"
    /\ IF provider.ok
       THEN /\ credential' = Some(provider.credential)
            /\ pc' = "build"
            /\ UNCHANGED result
       ELSE /\ result' = Some("Err(credential)")
            /\ pc' = "returned"
            /\ UNCHANGED credential
    /\ UNCHANGED <<request, sent>>
    /\ GetUnchanged

\* lines 77-85: the path, the URI and the request with no header
BuildRequest ==
    /\ pc = "build"
    /\ LET path == bucket \o <<47>> \o encode_path(key)
           uri == PathAndQuery_parse(path)
       IN IF uri = None
          THEN /\ result' = Some("Err(HttpError)")
               /\ pc' = "returned"
               /\ UNCHANGED request
          ELSE /\ request' = [method |-> GET, uri |-> uri[1], headers |-> <<>>]
               /\ pc' = "sign"
               /\ UNCHANGED result
    /\ UNCHANGED <<credential, sent>>
    /\ GetUnchanged

\* lines 96-100: the Range header, written once sign has returned
AddRange ==
    /\ pc = "signed"
    /\ range # None
    /\ request' = [request EXCEPT
           !.headers = HeaderMap_insert(@, RANGE, format_http_range(range[1]))]
    /\ pc' = "ranged"
    /\ UNCHANGED <<credential, sent, result>>
    /\ GetUnchanged

\* line 102: self.client.request(request).await?
Dispatch ==
    /\ (pc = "signed" /\ range = None) \/ pc = "ranged"
    /\ sent' = Some(request)
    /\ \/ pc' = "aggregate" /\ UNCHANGED result
       \/ pc' = "returned" /\ result' = Some("Err(HyperError)")
    /\ UNCHANGED <<credential, request>>
    /\ GetUnchanged

\* lines 104-106: hyper::body::aggregate(response.into_body()).await?
Aggregate ==
    /\ pc = "aggregate"
    /\ result' \in {Some("Ok(buf)"), Some("Err(HyperError)")}
    /\ pc' = "returned"
    /\ UNCHANGED <<credential, request, sent>>
    /\ GetUnchanged

Next ==
    \/ GetCredential
    \/ BuildRequest
    \/ SignToken
    \/ SignDate
    \/ SignHash
    \/ SignAuthorize
    \/ AddRange
    \/ Dispatch
    \/ Aggregate

Spec == InitGet /\ [][Next]_vars

(***************************************************************************)
(* sign applied to a request that already carries headers                  *)
(***************************************************************************)
MaxSignHeaders == 2

PresetNames ==
    { <<65, 117, 116, 104, 111, 114, 105, 122, 97, 116, 105, 111, 110>>,   \* "Authorization"
      <<88, 45, 65, 109, 122, 45, 68, 97, 116, 101>>,   \* "X-Amz-Date"
      <<67, 111, 110, 116, 101, 110, 116, 45, 84, 121, 112, 101>>,   \* "Content-Type"
      <<120, 45, 97>>   \* "x-a"
    }

PresetValues ==
    { <<111, 108, 100>>,            \* "old"
      <<255>> }                      \* an opaque byte, not UTF-8

PresetHeaders ==
    UNION {[1..n -> PresetNames \X PresetValues] : n \in 0..MaxSignHeaders}

PresetUris ==
    { [path |-> <<98, 47, 107>>, query |-> None],                        \* b/k
      [path |-> <<98>>, query |-> Some(<<97, 47, 61, 49, 38, 97, 45, 61, 50>>)] }  \* b?a/=1&a-=2

InitSign ==
    /\ pc = "sign"
    /\ provider \in Providers
    /\ provider.ok
    /\ credential = Some(provider.credential)
    /\ supplied_headers \in PresetHeaders
    /\ \E uri \in PresetUris :
          request = [method |-> GET, uri |-> uri,
                     headers |-> HeaderMap_from(supplied_headers)]
    /\ bucket = <<>>
    /\ key = <<>>
    /\ range = None
    /\ url = NoUrl
    /\ canonical_query = <<>>
    /\ signed_headers = <<>>
    /\ canonical_headers = <<>>
    /\ recanonical_query = <<>>
    /\ signed_request = None
    /\ sent = None
    /\ result = None

NextSign == SignToken \/ SignDate \/ SignHash \/ SignAuthorize

SpecSign == InitSign /\ [][NextSign]_vars

(***************************************************************************)
(* Properties of get and sign                                              *)
(***************************************************************************)
\* first position at which pat occurs in s, 0 if it does not
FindSub(s, pat) ==
    LET at(i) == i + Len(pat) - 1 <= Len(s) /\ SubSeq(s, i, i + Len(pat) - 1) = pat
    IN IF \E i \in 1..Len(s) : at(i)
       THEN CHOOSE i \in 1..Len(s) : at(i) /\ \A j \in 1..(i - 1) : ~at(j)
       ELSE 0

\* ", SignedHeaders="
SIGNED_HEADERS_FIELD == <<44, 32, 83, 105, 103, 110, 101, 100, 72, 101, 97, 100, 101, 114, 115, 61>>
\* ", Signature="
SIGNATURE_FIELD == <<44, 32, 83, 105, 103, 110, 97, 116, 117, 114, 101, 61>>

AuthValue(req) == HeaderMap_get(req.headers, AUTH_HEADER)[1]

\* the SignedHeaders list inside an authorization value, as a sequence of names
AuthSignedNames(v) ==
    LET from == FindSub(v, SIGNED_HEADERS_FIELD) + Len(SIGNED_HEADERS_FIELD)
        to == FindSub(v, SIGNATURE_FIELD) - 1
        list == SubSeq(v, from, to)
    IN IF list = <<>> THEN <<>> ELSE Split(list, 59)

IsDigits(s) == s # <<>> /\ \A i \in 1..Len(s) : s[i] >= 48 /\ s[i] <= 57

RECURSIVE ParseDec(_)
ParseDec(s) ==
    IF s = <<>> THEN 0 ELSE 10 * ParseDec(SubSeq(s, 1, Len(s) - 1)) + (s[Len(s)] - 48)

Max(a, b) == IF a >= b THEN a ELSE b

\* "bytes="
BYTES_UNIT == <<98, 121, 116, 101, 115, 61>>

C2_SigningLast ==
    sent # None => sent[1].headers = signed_request[1].headers

\* C3: when the provider fails, get returns the error, builds no request and
\* hands nothing to the transport.
C3_CredentialFailureBeforeNetwork ==
    ~provider.ok =>
        /\ sent = None
        /\ request = NoRequest
        /\ pc \in {"get", "returned"}
        /\ pc = "returned" => result = Some("Err(credential)")

C3_Witness ==
    /\ ~provider.ok
    /\ pc = "returned"
    /\ result = Some("Err(credential)")
    /\ sent = None

\* an independent verifier: white space stripped from both ends
VerifierTrim(v) ==
    LET solid == {i \in 1..Len(v) : v[i] \notin {9, 10, 11, 12, 13, 32}}
    IN IF solid = {} THEN <<>>
       ELSE SubSeq(v, CHOOSE i \in solid : \A j \in solid : i <= j,
                      CHOOSE i \in solid : \A j \in solid : i >= j)

VerifierHeaderBlock(req, names) ==
    LET line(n) ==
            LET vs == HeaderMap_get(req.headers, n)
            IN n \o <<58>> \o Join([i \in 1..Len(vs) |-> VerifierTrim(vs[i])], <<44>>)
                 \o <<10>>
    IN Join([i \in 1..Len(names) |-> line(names[i])], <<>>)

VerifierQuery(req) ==
    IF req.uri.query = None THEN <<>>
    ELSE LET ps == StableSortByKey(query_pairs(Url_parse_query(req.uri.query[1])))
         IN Join([i \in 1..Len(ps) |->
                     utf8_percent_encode(ps[i][1], Bytes \ Unreserved) \o <<61>> \o
                     utf8_percent_encode(ps[i][2], Bytes \ Unreserved)], <<38>>)

VerifierCanonicalRequest(req) ==
    LET names == AuthSignedNames(AuthValue(req))
    IN req.method \o <<10>> \o req.uri.path \o <<10>> \o VerifierQuery(req) \o <<10>> \o
       VerifierHeaderBlock(req, names) \o <<10>> \o Join(names, <<59>>) \o <<10>> \o
       HeaderMap_get(req.headers, HASH_HEADER)[1]

\* the authorization value the verifier derives from the request it received
VerifierAuthorization(req, cred) ==
    LET stamp == HeaderMap_get(req.headers, DATE_HEADER)[1]
        day == SubSeq(stamp, 1, 8)
        scope == day \o <<47>> \o REGION \o <<47>> \o SERVICE \o <<47>> \o AWS4_REQUEST
        to_sign == ALGORITHM \o <<10>> \o stamp \o <<10>> \o scope \o <<10>> \o
                   hex_digest(VerifierCanonicalRequest(req))
        k == hmac_sha256(hmac_sha256(hmac_sha256(hmac_sha256(
                 AWS4 \o cred.secret_key, day), REGION), SERVICE), AWS4_REQUEST)
    IN ALGORITHM \o <<32, 67, 114, 101, 100, 101, 110, 116, 105, 97, 108, 61>> \o cred.key_id \o <<47>> \o scope \o
       SIGNED_HEADERS_FIELD \o Join(AuthSignedNames(AuthValue(req)), <<59>>) \o
       SIGNATURE_FIELD \o hex_encode(hmac_sha256(k, to_sign))

BadToken ==
    /\ provider.ok
    /\ provider.credential.token # None
    /\ ~HeaderValue_is_valid(provider.credential.token[1])

\* C8: with a session token that is not a valid header value, get returns a
\* request-construction error: the signer is not entered, nothing panics and
\* nothing is dispatched.
C8_ConstructionError ==
    BadToken =>
        /\ pc \notin {"panicked", "sign_date", "sign_hash", "sign_canonical", "signed"}
        /\ sent = None
        /\ pc = "returned" => result = Some("Err(HttpError)")

\* C10: sign has written x-amz-security-token (for a credential with a token),
\* x-amz-date and x-amz-content-sha256 when it canonicalises the headers and
\* writes authorization only afterwards; the SignedHeaders list of the
\* authorization header names the first three and never authorization.
C10_SignedHeaderNames ==
    LET token == credential[1].token
        preset == HeaderMap_from(supplied_headers)
    IN /\ pc = "sign_canonical" =>
             /\ HeaderMap_get(request.headers, DATE_HEADER) = <<format_datetime(SignerDate)>>
             /\ HeaderMap_get(request.headers, HASH_HEADER) = <<EMPTY_SHA256_HASH>>
             /\ token # None => HeaderMap_get(request.headers, TOKEN_HEADER) = token
             /\ HeaderMap_get(request.headers, AUTH_HEADER) = HeaderMap_get(preset, AUTH_HEADER)
       /\ pc = "signed" =>
             LET names == AuthSignedNames(AuthValue(request))
                 named == {names[i] : i \in 1..Len(names)}
             IN /\ DATE_HEADER \in named
                /\ HASH_HEADER \in named
                /\ token # None => TOKEN_HEADER \in named
                /\ AUTH_HEADER \notin named
                /\ Join(names, <<59>>) = signed_headers

C10_Witness ==
    /\ pc = "signed"
    /\ credential[1].token # None
    /\ \E i \in 1..Len(supplied_headers) :
          to_lowercase(supplied_headers[i][1]) = AUTH_HEADER

====
